---- MODULE Spec2Model ----
(***************************************************************************)
(* Model of CartController (src/src/controllers/cartController.ts): the    *)
(* six request handlers addToCart, getCart, updateCart, removeFromCart,    *)
(* clearCart and getCartTotal, each run as a sequence of steps separated   *)
(* by the awaits on axios calls to the brewery API.                        *)
(*                                                                         *)
(* JavaScript values are tagged records, so that the strict comparison     *)
(* !== of the handlers (which distinguishes the number 1 from the string   *)
(* "1") is computed as the runtime computes it.                            *)
(***************************************************************************)
EXTENDS Integers, Sequences, FiniteSets, TLC

\* ------------------------------------------------------------------ bounds
MaxId == 2       \* user ids, inventory ids and cart item ids range over 1..MaxId
MaxQty == 2      \* requested quantities 1..MaxQty, stock quantities 0..MaxQty
MaxItems == 3    \* a fetched cart holds at most MaxItems items

\* ------------------------------------------------------- JavaScript values
Undefined == [t |-> "undefined"]
Num(n) == [t |-> "number", v |-> n]
Str(s) == [t |-> "string", v |-> s]
Obj(x) == [t |-> "object", v |-> x]

IsUndefined(x) == x.t = "undefined"

\* a === b on undefined, numbers and strings: same type and same value
StrictEq(a, b) == a.t = b.t /\ (a.t = "undefined" \/ a.v = b.v)

\* a !== b
StrictNeq(a, b) == ~StrictEq(a, b)

\* x.toString() for a number or a string (on undefined the call throws, see Throws)
toString(x) == IF x.t = "number" THEN Str(ToString(x.v)) ELSE x

\* Faulty variant: toString() of undefined yields undefined instead of throwing
ThrowsNever(x) == FALSE

\* x.toString() throws a TypeError when x is undefined
Throws(x) == IsUndefined(x)

\* `${x}` inside a template literal
Template(x) ==
  CASE x.t = "number" -> ToString(x.v)
    [] x.t = "string" -> x.v
    [] OTHER -> "undefined"

\* truthiness of a value, as || tests it
Truthy(x) ==
  CASE x.t = "undefined" -> FALSE
    [] x.t = "number" -> x.v # 0
    [] x.t = "string" -> x.v # ""
    [] OTHER -> TRUE

\* a || b
Or(a, b) == IF Truthy(a) THEN a ELSE b

\* a < b on numbers and undefined: undefined converts to NaN and every
\* comparison with NaN is false
Less(a, b) == a.t = "number" /\ b.t = "number" /\ a.v < b.v

\* x?.f for the optional chains of the handlers
Chain(x, f) == IF IsUndefined(x) THEN Undefined ELSE x[f]

\* ---------------------------------------------------- binary64 arithmetic
\* Ids, quantities and status codes are only compared and printed, and are
\* held as integers.  Prices and totals take part in the arithmetic of
\* getCartTotal and are held as the binary64 values they are: a value x >= 0
\* that is a multiple of 2^-56 is the triple <<l0, l1, l2>> of 24-bit limbs
\* with x * 2^56 = l0 + l1 * 2^24 + l2 * 2^48 (every binary64 value from
\* 0.0625 up to 2^16 is such a multiple, and so are their exact sums and their
\* exact products by a small integer).
LimbBase == 2^24
MantissaBits == 53

Double(limbs) == [t |-> "number", v |-> limbs]
Zero == <<0, 0, 0>>

\* carries propagated upwards
Carry(l) ==
  LET s1 == l[2] + l[1] \div LimbBase
  IN <<l[1] % LimbBase, s1 % LimbBase, l[3] + s1 \div LimbBase>>

\* exact sum and exact product by a small integer
ExactAdd(x, y) == Carry(<<x[1] + y[1], x[2] + y[2], x[3] + y[3]>>)
ExactTimes(x, q) == Carry(<<x[1] * q, x[2] * q, x[3] * q>>)

\* the number of significant bits
Bits(n) == CHOOSE b \in 0..30 : n < 2^b /\ (b = 0 \/ n >= 2^(b - 1))
BitLen(x) ==
  IF x[3] > 0 THEN 48 + Bits(x[3]) ELSE IF x[2] > 0 THEN 24 + Bits(x[2]) ELSE Bits(x[1])

\* the nearest value with MantissaBits significant bits, ties to even: what
\* every binary64 operation does to its exact result
Round(x) ==
  LET k == BitLen(x) - MantissaBits
      unit == 2^k
      rem == x[1] % unit
      odd == (x[1] \div unit) % 2 = 1
      down == <<x[1] - rem, x[2], x[3]>>
  IN IF k <= 0 THEN x
     ELSE IF 2 * rem > unit \/ (2 * rem = unit /\ odd)
       THEN Carry(<<down[1] + unit, down[2], down[3]>>)
       ELSE down

\* a + b and a * q in binary64
Plus(a, b) == Double(Round(ExactAdd(a.v, b.v)))
Times(a, q) == Double(Round(ExactTimes(a.v, q.v)))

\* --------------------------------------------------------------- requests
Ids == 1..MaxId
Quantities == 1..MaxQty

\* req.user as the authentication middleware leaves it: absent, or an object
\* whose id is whatever the token carried (a number or a string)
Users ==
  {Undefined} \cup {[t |-> "object", id |-> Num(u)] : u \in Ids}
              \cup {[t |-> "object", id |-> Str(ToString(u))] : u \in Ids}

\* what errors.array() returns
ValidationErrors ==
  { <<>>,
    <<"Quantity must be at least 1">>,
    <<"User ID must be a positive integer", "Quantity must be at least 1">> }

\* body.user_id arrives as a number or as a numeric string
BodyUserIds == {Num(u) : u \in Ids} \cup {Str(ToString(u)) : u \in Ids}

\* req.headers.authorization: the bearer token the request came with (no
\* handler reads it)
Tokens == {Str("Bearer mock-token")}

NoBody == [user_id |-> Undefined, inventory_id |-> Undefined, quantity |-> Undefined]
NoParams == [user_id |-> Undefined, id |-> Undefined]

AddRequests ==
  { [op |-> "addToCart", errors |-> e, user |-> u,
     body |-> [user_id |-> b, inventory_id |-> Num(i), quantity |-> Num(q)],
     params |-> NoParams, headers |-> [authorization |-> t]] :
    e \in ValidationErrors, u \in Users, b \in BodyUserIds, i \in Ids, q \in Quantities,
    t \in Tokens }

UpdateRequests ==
  { [op |-> "updateCart", errors |-> e, user |-> u,
     body |-> [NoBody EXCEPT !.quantity = Num(q)],
     params |-> [NoParams EXCEPT !.id = Str(ToString(i))],
     headers |-> [authorization |-> t]] :
    e \in ValidationErrors, u \in Users, i \in Ids, q \in Quantities, t \in Tokens }

RemoveRequests ==
  { [op |-> "removeFromCart", errors |-> <<>>, user |-> u, body |-> NoBody,
     params |-> [NoParams EXCEPT !.id = Str(ToString(i))],
     headers |-> [authorization |-> t]] :
    u \in Users, i \in Ids, t \in Tokens }

OwnerRequests(op) ==
  { [op |-> op, errors |-> <<>>, user |-> u, body |-> NoBody,
     params |-> [NoParams EXCEPT !.user_id = Str(ToString(i))],
     headers |-> [authorization |-> t]] :
    u \in Users, i \in Ids, t \in Tokens }

Requests ==
  AddRequests \cup UpdateRequests \cup RemoveRequests \cup OwnerRequests("getCart")
    \cup OwnerRequests("clearCart") \cup OwnerRequests("getCartTotal")

\* ------------------------------------------------------------------ state
VARIABLES
  req,     \* req[r]: the inbound request handled in slot r
  pc,      \* pc[r]: where the handler of r stands ("start", an await, "done")
  calls,   \* calls[r]: the axios calls r has issued, in order
  resp,    \* resp[r]: the responses r has sent (res.status(s).json(b)), in order
  loc,     \* loc[r]: the handler's local variables
  stock    \* stock[i]: the stockQuantity the upstream holds for inventory i

vars == <<req, pc, calls, resp, loc, stock>>

NoLoc == [item |-> Undefined, cartItems |-> <<>>, idx |-> 0, total |-> Double(Zero)]

\* the handler invocations the model follows; a slot not in use stays "unused"
Slots == {1, 2}

NoRequest == [op |-> "none", errors |-> <<>>, user |-> Undefined, body |-> NoBody,
              params |-> NoParams, headers |-> [authorization |-> Undefined]]

\* an inventory record may lack its stockQuantity
StockValues == {Undefined} \cup {Num(n) : n \in 0..MaxQty}

\* the upstream's price list: inventory 1 costs 0.1, inventory 2 costs 0.3,
\* inventory 3 costs 5.99, inventory 4 costs 3.99, and so on in turn (the
\* binary64 values nearest to these decimals, as the JSON answer is parsed)
PriceList ==
  << <<10066330, 10066329, 25>>, <<13421772, 13421772, 76>>,
     <<671104, 7381975, 1533>>, <<671104, 7381975, 1021>> >>

PriceOf(i) == Double(PriceList[((i - 1) % Len(PriceList)) + 1])

StockGated == {"addToCart", "updateCart"}

\* the upstream's inventory; what no request of the run reads is left at a default
InitUpstream ==
  /\ stock \in [Ids -> StockValues]
  /\ (\A r \in Slots : req[r].op \notin StockGated) => stock = [i \in Ids |-> Num(MaxQty)]

\* the slots of S each hold one inbound request, about to be handled
InitSlots(S, R) ==
  /\ req \in [Slots -> R \cup {NoRequest}]
  /\ \A r \in Slots : req[r] = NoRequest <=> r \notin S
  /\ pc = [r \in Slots |-> IF r \in S THEN "start" ELSE "unused"]
  /\ calls = [r \in Slots |-> <<>>]
  /\ resp = [r \in Slots |-> <<>>]
  /\ loc = [r \in Slots |-> NoLoc]
  /\ InitUpstream

\* one request, handled alone
Init == InitSlots({1}, Requests)

\* ------------------------------------------------- what the upstream answers
\* A rejected axios call: without a response (transport failure), or with the
\* upstream's response; message is the failure's own description, which a
\* rejection value may lack
Failures ==
  { [response |-> Undefined, message |-> Str("Network error")] } \cup
  { [response |-> [t |-> "object", status |-> Num(404),
                   data |-> [t |-> "object", message |-> m, errors |-> e]],
     message |-> fm] :
    m \in {Undefined, Str("Not found")},
    e \in {Undefined, Obj(<<"detail">>)},
    fm \in {Undefined, Str("Request failed with status code 404")} }

\* GET /api/inventory/:id answers with the record the upstream holds
Inventory(id) == [t |-> "object", stockQuantity |-> stock[id.v], price |-> PriceOf(id.v)]

\* GET /api/cart/item/:id
CartItemRecords ==
  { [t |-> "object", user_id |-> u, inventory_id |-> Num(i)] :
    u \in {Undefined} \cup BodyUserIds, i \in Ids }

\* the body of a mutating call's answer
MutationRecords == { [t |-> "object", id |-> Num(i)] : i \in Ids }

CartLine == { [inventory_id |-> Num(i), quantity |-> Num(q)] : i \in Ids, q \in Quantities }

\* GET /api/cart/:user_id: an array of at most MaxItems items
Carts == UNION { [1..n -> CartLine] : n \in 0..MaxItems }

Resolved(d) == [t |-> "resolved", data |-> d]
Rejected(e) == [t |-> "rejected", error |-> e]
Pending == [t |-> "pending"]

Outcomes(D) == {Resolved(d) : d \in D} \cup {Rejected(e) : e \in Failures}

\* --------------------------------------------------------- handler pieces
breweryApiUrl == "http://localhost:5089"

\* the result of the last call of r is recorded when its await returns
Settle(cs, out) == [cs EXCEPT ![Len(cs)].result = out]

Call(method, args) == [method |-> method, args |-> args, result |-> Pending]

\* res.status(s).json(b); the handler returns
Respond(r, s, b) ==
  /\ resp' = [resp EXCEPT ![r] = Append(@, [status |-> s, body |-> b])]
  /\ pc' = [pc EXCEPT ![r] = "done"]

\* the await of r's last call returns out; nothing more is issued
Returned(r, out) == calls' = [calls EXCEPT ![r] = Settle(@, out)]

\* the await of r's last call returns out and the handler issues the next call
ReturnedThen(r, out, next, call) ==
  /\ calls' = [calls EXCEPT ![r] = Append(Settle(@, out), call)]
  /\ pc' = [pc EXCEPT ![r] = next]
  /\ resp' = resp

\* the handler issues its first call
Issue(r, next, call) ==
  /\ calls' = [calls EXCEPT ![r] = Append(@, call)]
  /\ pc' = [pc EXCEPT ![r] = next]
  /\ resp' = resp

\* Faulty variant: every upstream failure is answered 500
ErrorStatusAlways500(error) == 500

\* error.response?.status || 500
ErrorStatus(error) == Or(Chain(error.response, "status"), Num(500)).v

\* Faulty variant: the handler's default message is not used
ErrorMessageNoDefault(error, default) == Chain(Chain(error.response, "data"), "message")

\* error.response?.data?.message || "<default>"
ErrorMessage(error, default) ==
  Or(Chain(Chain(error.response, "data"), "message"), Str(default))

\* Faulty variant: the failure's own message is not used
ErrorDetailFromBody(error) == Chain(Chain(error.response, "data"), "errors")

\* error.response?.data?.errors || error.message
ErrorDetail(error) ==
  Or(Chain(Chain(error.response, "data"), "errors"), error.message)

\* Faulty variant: the failure leaves the handler, no response is sent
CatchRethrows(r, error, default) ==
  /\ resp' = resp
  /\ pc' = [pc EXCEPT ![r] = "done"]

\* the catch block of every handler
Catch(r, error, default) ==
  Respond(r, ErrorStatus(error),
          [message |-> ErrorMessage(error, default), error |-> ErrorDetail(error)])

\* what  undefined.toString()  throws inside a try block
TypeError == [response |-> Undefined,
              message |-> Str("Cannot read properties of undefined (reading 'toString')")]

Unauthorized == [message |-> Str("Unauthorized")]
InsufficientStock == [message |-> Str("Insufficient stock")]

\* Faulty variant: the comparison is reversed
StockTooLowReversed(inventory, rq) == Less(rq.body.quantity, inventory.stockQuantity)

\* Faulty variant: a quantity equal to the stock is refused too
StockTooLowOrEqual(inventory, rq) ==
  Less(inventory.stockQuantity, rq.body.quantity)
    \/ StrictEq(inventory.stockQuantity, rq.body.quantity)

\* inventoryResponse.data.stockQuantity < req.body.quantity
StockTooLow(inventory, rq) == Less(inventory.stockQuantity, rq.body.quantity)

\* !errors.isEmpty()
ValidationFailed(rq) == rq.errors # <<>>

\* Faulty variant: only the first field error is reported
ValidationBodyFirst(rq) == [errors |-> <<Head(rq.errors)>>]

\* { errors: errors.array() }
ValidationBody(rq) == [errors |-> rq.errors]

\* ------------------------------------------------------------- addToCart
\* req.user?.id !== req.body.user_id.toString()
AddRejected(rq) == StrictNeq(Chain(rq.user, "id"), toString(rq.body.user_id))

\* Faulty variant: the ownership check comes before the validation result
AddToCartChecksOwnerFirst(r) ==
  /\ pc[r] = "start" /\ req[r].op = "addToCart"
  /\ IF AddRejected(req[r])
       THEN Respond(r, 403, Unauthorized) /\ calls' = calls
     ELSE IF ValidationFailed(req[r])
       THEN Respond(r, 400, ValidationBody(req[r])) /\ calls' = calls
     ELSE Issue(r, "add_inventory",
                Call("get", <<breweryApiUrl \o "/api/inventory/"
                                \o Template(req[r].body.inventory_id)>>))
  /\ UNCHANGED <<req, loc, stock>>

AddToCart(r) ==
  /\ pc[r] = "start" /\ req[r].op = "addToCart"
  /\ IF ValidationFailed(req[r])
       THEN Respond(r, 400, ValidationBody(req[r])) /\ calls' = calls
     ELSE IF AddRejected(req[r])
       THEN Respond(r, 403, Unauthorized) /\ calls' = calls
     ELSE Issue(r, "add_inventory",
                Call("get", <<breweryApiUrl \o "/api/inventory/"
                                \o Template(req[r].body.inventory_id)>>))
  /\ UNCHANGED <<req, loc, stock>>

\* Faulty variant: the stock check is made against the stock less the quantity
\* that the other requests in flight are about to write for the same inventory
AddInventoryReturnedReserving(r) ==
  /\ pc[r] = "add_inventory"
  /\ \E out \in Outcomes({Inventory(req[r].body.inventory_id)}) :
       LET writers == {s \in Slots \ {r} :
                         \/ /\ pc[s] = "add_post"
                            /\ req[s].body.inventory_id = req[r].body.inventory_id
                         \/ /\ pc[s] = "update_put"
                            /\ loc[s].item.inventory_id = req[r].body.inventory_id}
           taken == /\ out.t = "resolved" /\ out.data.stockQuantity.t = "number"
                    /\ \E s \in writers :
                            out.data.stockQuantity.v
                              < req[r].body.quantity.v + req[s].body.quantity.v
       IN IF out.t = "rejected"
            THEN Returned(r, out) /\ Catch(r, out.error, "Error adding to cart")
          ELSE IF StockTooLow(out.data, req[r]) \/ taken
            THEN Returned(r, out) /\ Respond(r, 400, InsufficientStock)
          ELSE ReturnedThen(r, out, "add_post",
                            Call("post", <<breweryApiUrl \o "/api/cart/add", req[r].body>>))
  /\ UNCHANGED <<req, loc, stock>>

AddInventoryReturned(r) ==
  /\ pc[r] = "add_inventory"
  /\ \E out \in Outcomes({Inventory(req[r].body.inventory_id)}) :
       IF out.t = "rejected"
         THEN Returned(r, out) /\ Catch(r, out.error, "Error adding to cart")
       ELSE IF StockTooLow(out.data, req[r])
         THEN Returned(r, out) /\ Respond(r, 400, InsufficientStock)
       ELSE ReturnedThen(r, out, "add_post",
                         Call("post", <<breweryApiUrl \o "/api/cart/add", req[r].body>>))
  /\ UNCHANGED <<req, loc, stock>>

AddPostReturned(r) ==
  /\ pc[r] = "add_post"
  /\ \E out \in Outcomes(MutationRecords) :
       /\ Returned(r, out)
       /\ IF out.t = "rejected"
            THEN Catch(r, out.error, "Error adding to cart")
            ELSE Respond(r, 201, out.data)
  /\ UNCHANGED <<req, loc, stock>>

\* --------------------------------------------------------------- getCart
\* req.user?.id !== req.params.user_id
GetRejected(rq) == StrictNeq(Chain(rq.user, "id"), rq.params.user_id)

GetCart(r) ==
  /\ pc[r] = "start" /\ req[r].op = "getCart"
  /\ IF GetRejected(req[r])
       THEN Respond(r, 403, Unauthorized) /\ calls' = calls
       ELSE Issue(r, "get_cart",
                  Call("get", <<breweryApiUrl \o "/api/cart/"
                                  \o Template(req[r].params.user_id)>>))
  /\ UNCHANGED <<req, loc, stock>>

\* Faulty variant: a failed fetch is tried once more
GetCartReturnedRetries(r) ==
  /\ pc[r] = "get_cart"
  /\ \E out \in Outcomes(Carts) :
       IF out.t = "rejected" /\ Len(calls[r]) = 1
         THEN ReturnedThen(r, out, "get_cart", calls[r][1])
         ELSE /\ Returned(r, out)
              /\ IF out.t = "rejected"
                   THEN Catch(r, out.error, "Error getting cart")
                   ELSE Respond(r, 200, out.data)
  /\ UNCHANGED <<req, loc, stock>>

GetCartReturned(r) ==
  /\ pc[r] = "get_cart"
  /\ \E out \in Outcomes(Carts) :
       /\ Returned(r, out)
       /\ IF out.t = "rejected"
            THEN Catch(r, out.error, "Error getting cart")
            ELSE Respond(r, 200, out.data)
  /\ UNCHANGED <<req, loc, stock>>

\* ------------------------------------------------------------ updateCart
\* Faulty variant: the check is made only when there is an actor
ItemRejectedIfPresent(rq, item) ==
  ~IsUndefined(rq.user) /\ StrictNeq(rq.user.id, toString(item.user_id))

\* Faulty variant: only an absent actor is refused
ItemRejectedOnlyAbsent(rq, item) == IsUndefined(Chain(rq.user, "id"))

\* Faulty variant: nobody is refused
ItemRejectedNever(rq, item) == FALSE

\* req.user?.id !== cartItemResponse.data.user_id.toString()
ItemRejected(rq, item) == StrictNeq(Chain(rq.user, "id"), toString(item.user_id))

UpdateCart(r) ==
  /\ pc[r] = "start" /\ req[r].op = "updateCart"
  /\ IF ValidationFailed(req[r])
       THEN Respond(r, 400, ValidationBody(req[r])) /\ calls' = calls
       ELSE Issue(r, "update_item",
                  Call("get", <<breweryApiUrl \o "/api/cart/item/"
                                  \o Template(req[r].params.id)>>))
  /\ UNCHANGED <<req, loc, stock>>

UpdateItemReturned(r) ==
  /\ pc[r] = "update_item"
  /\ \E out \in Outcomes(CartItemRecords) :
       IF out.t = "rejected"
         THEN /\ Returned(r, out) /\ Catch(r, out.error, "Error updating cart")
              /\ loc' = loc
       ELSE IF Throws(out.data.user_id)
         THEN /\ Returned(r, out) /\ Catch(r, TypeError, "Error updating cart")
              /\ loc' = loc
       ELSE IF ItemRejected(req[r], out.data)
         THEN /\ Returned(r, out) /\ Respond(r, 403, Unauthorized)
              /\ loc' = loc
       ELSE /\ ReturnedThen(r, out, "update_inventory",
                            Call("get", <<breweryApiUrl \o "/api/inventory/"
                                            \o Template(out.data.inventory_id)>>))
            /\ loc' = [loc EXCEPT ![r].item = out.data]
  /\ UNCHANGED <<req, stock>>

\* Faulty variant: the requested quantity is kept in a field of the controller,
\* which a request handled at the same time overwrites
UpdateInventoryReturnedShared(r) ==
  /\ pc[r] = "update_inventory"
  /\ \E out \in Outcomes({Inventory(loc[r].item.inventory_id)}) :
       LET others == {o \in Slots \ {r} : pc[o] \notin {"unused", "start", "done"}}
           last == IF others = {} THEN req[r] ELSE req[CHOOSE o \in others : TRUE]
       IN IF out.t = "rejected"
            THEN Returned(r, out) /\ Catch(r, out.error, "Error updating cart")
          ELSE IF StockTooLow(out.data, last)
            THEN Returned(r, out) /\ Respond(r, 400, InsufficientStock)
          ELSE ReturnedThen(r, out, "update_put",
                            Call("put", <<breweryApiUrl \o "/api/cart/update/"
                                            \o Template(req[r].params.id), req[r].body>>))
  /\ UNCHANGED <<req, loc, stock>>

UpdateInventoryReturned(r) ==
  /\ pc[r] = "update_inventory"
  /\ \E out \in Outcomes({Inventory(loc[r].item.inventory_id)}) :
       IF out.t = "rejected"
         THEN Returned(r, out) /\ Catch(r, out.error, "Error updating cart")
       ELSE IF StockTooLow(out.data, req[r])
         THEN Returned(r, out) /\ Respond(r, 400, InsufficientStock)
       ELSE ReturnedThen(r, out, "update_put",
                         Call("put", <<breweryApiUrl \o "/api/cart/update/"
                                         \o Template(req[r].params.id), req[r].body>>))
  /\ UNCHANGED <<req, loc, stock>>

UpdatePutReturned(r) ==
  /\ pc[r] = "update_put"
  /\ \E out \in Outcomes(MutationRecords) :
       /\ Returned(r, out)
       /\ IF out.t = "rejected"
            THEN Catch(r, out.error, "Error updating cart")
            ELSE Respond(r, 200, out.data)
  /\ UNCHANGED <<req, loc, stock>>

\* -------------------------------------------------------- removeFromCart
RemoveFromCart(r) ==
  /\ pc[r] = "start" /\ req[r].op = "removeFromCart"
  /\ Issue(r, "remove_item",
           Call("get", <<breweryApiUrl \o "/api/cart/item/" \o Template(req[r].params.id)>>))
  /\ UNCHANGED <<req, loc, stock>>

RemoveItemReturned(r) ==
  /\ pc[r] = "remove_item"
  /\ \E out \in Outcomes(CartItemRecords) :
       IF out.t = "rejected"
         THEN /\ Returned(r, out) /\ Catch(r, out.error, "Error removing from cart")
              /\ loc' = loc
       ELSE IF Throws(out.data.user_id)
         THEN /\ Returned(r, out) /\ Catch(r, TypeError, "Error removing from cart")
              /\ loc' = loc
       ELSE IF ItemRejected(req[r], out.data)
         THEN /\ Returned(r, out) /\ Respond(r, 403, Unauthorized)
              /\ loc' = loc
       ELSE /\ ReturnedThen(r, out, "remove_delete",
                            Call("delete", <<breweryApiUrl \o "/api/cart/remove/"
                                               \o Template(req[r].params.id)>>))
            /\ loc' = [loc EXCEPT ![r].item = out.data]
  /\ UNCHANGED <<req, stock>>

RemoveDeleteReturned(r) ==
  /\ pc[r] = "remove_delete"
  /\ \E out \in Outcomes(MutationRecords) :
       /\ Returned(r, out)
       /\ IF out.t = "rejected"
            THEN Catch(r, out.error, "Error removing from cart")
            ELSE Respond(r, 200, out.data)
  /\ UNCHANGED <<req, loc, stock>>

\* ------------------------------------------------------------- clearCart
\* Faulty variant: the check is made only when there is an actor
ClearRejectedIfPresent(rq) ==
  ~IsUndefined(rq.user) /\ StrictNeq(rq.user.id, rq.params.user_id)

\* req.user?.id !== req.params.user_id
ClearRejected(rq) == StrictNeq(Chain(rq.user, "id"), rq.params.user_id)

ClearCart(r) ==
  /\ pc[r] = "start" /\ req[r].op = "clearCart"
  /\ IF ClearRejected(req[r])
       THEN Respond(r, 403, Unauthorized) /\ calls' = calls
       ELSE Issue(r, "clear_delete",
                  Call("delete", <<breweryApiUrl \o "/api/cart/clear/"
                                     \o Template(req[r].params.user_id)>>))
  /\ UNCHANGED <<req, loc, stock>>

\* Faulty variant: the upstream body is relayed
ClearDeleteReturnedRelays(r) ==
  /\ pc[r] = "clear_delete"
  /\ \E out \in Outcomes(MutationRecords) :
       /\ Returned(r, out)
       /\ IF out.t = "rejected"
            THEN Catch(r, out.error, "Error clearing cart")
            ELSE Respond(r, 200, out.data)
  /\ UNCHANGED <<req, loc, stock>>

ClearDeleteReturned(r) ==
  /\ pc[r] = "clear_delete"
  /\ \E out \in Outcomes(MutationRecords) :
       /\ Returned(r, out)
       /\ IF out.t = "rejected"
            THEN Catch(r, out.error, "Error clearing cart")
            ELSE Respond(r, 200, [message |-> Str("Cart cleared successfully")])
  /\ UNCHANGED <<req, loc, stock>>

\* ---------------------------------------------------------- getCartTotal
\* req.user?.id !== req.params.user_id
TotalRejected(rq) == StrictNeq(Chain(rq.user, "id"), rq.params.user_id)

\* Faulty variant: the quantity is left out of the product
AccumulateUnitPrice(total, inventory, item) == Plus(total, inventory.price)

\* total += inventoryResponse.data.price * item.quantity
Accumulate(total, inventory, item) == Plus(total, Times(inventory.price, item.quantity))

\* Faulty variant: the inventory record is asked for with a POST
InventoryCallPost(item) ==
  Call("post", <<breweryApiUrl \o "/api/inventory/" \o Template(item.inventory_id)>>)

InventoryCall(item) ==
  Call("get", <<breweryApiUrl \o "/api/inventory/" \o Template(item.inventory_id)>>)

GetCartTotal(r) ==
  /\ pc[r] = "start" /\ req[r].op = "getCartTotal"
  /\ IF TotalRejected(req[r])
       THEN Respond(r, 403, Unauthorized) /\ calls' = calls
       ELSE Issue(r, "total_cart",
                  Call("get", <<breweryApiUrl \o "/api/cart/"
                                  \o Template(req[r].params.user_id)>>))
  /\ UNCHANGED <<req, loc, stock>>

\* the cart arrives: total = 0 and the loop starts (or ends at once, on an empty cart)
TotalCartReturned(r) ==
  /\ pc[r] = "total_cart"
  /\ \E out \in Outcomes(Carts) :
       IF out.t = "rejected"
         THEN /\ Returned(r, out) /\ Catch(r, out.error, "Error calculating cart total")
              /\ loc' = loc
       ELSE IF out.data = <<>>
         THEN /\ Returned(r, out) /\ Respond(r, 200, [total |-> Double(Zero)])
              /\ loc' = [loc EXCEPT ![r].cartItems = out.data, ![r].total = Double(Zero)]
       ELSE /\ ReturnedThen(r, out, "total_inventory", InventoryCall(out.data[1]))
            /\ loc' = [loc EXCEPT ![r].cartItems = out.data, ![r].total = Double(Zero),
                                  ![r].idx = 1]
  /\ UNCHANGED <<req, stock>>

\* Faulty variant: an item whose inventory fetch failed is left out of the sum
TotalInventoryReturnedSkipsFailure(r) ==
  /\ pc[r] = "total_inventory"
  /\ \E out \in Outcomes({Inventory(loc[r].cartItems[loc[r].idx].inventory_id)}) :
       LET l == loc[r]
           total == IF out.t = "rejected" THEN l.total
                    ELSE Accumulate(l.total, out.data, l.cartItems[l.idx])
       IN IF l.idx = Len(l.cartItems)
            THEN /\ Returned(r, out) /\ Respond(r, 200, [total |-> total])
                 /\ loc' = [loc EXCEPT ![r].total = total]
          ELSE /\ ReturnedThen(r, out, "total_inventory",
                               InventoryCall(l.cartItems[l.idx + 1]))
               /\ loc' = [loc EXCEPT ![r].total = total, ![r].idx = l.idx + 1]
  /\ UNCHANGED <<req, stock>>

\* Faulty variant: the record just fetched is used again for the next item
\* when that item has the same inventory_id
TotalInventoryReturnedCached(r) ==
  /\ pc[r] = "total_inventory"
  /\ \E out \in Outcomes({Inventory(loc[r].cartItems[loc[r].idx].inventory_id)}) :
       LET l == loc[r]
           first == Accumulate(l.total, out.data, l.cartItems[l.idx])
           again == /\ l.idx < Len(l.cartItems)
                    /\ l.cartItems[l.idx + 1].inventory_id = l.cartItems[l.idx].inventory_id
           idx == IF again THEN l.idx + 1 ELSE l.idx
           total == IF again THEN Accumulate(first, out.data, l.cartItems[idx]) ELSE first
       IN IF out.t = "rejected"
            THEN /\ Returned(r, out)
                 /\ Catch(r, out.error, "Error calculating cart total")
                 /\ loc' = loc
          ELSE IF idx = Len(l.cartItems)
            THEN /\ Returned(r, out) /\ Respond(r, 200, [total |-> total])
                 /\ loc' = [loc EXCEPT ![r].total = total]
          ELSE /\ ReturnedThen(r, out, "total_inventory",
                               InventoryCall(l.cartItems[idx + 1]))
               /\ loc' = [loc EXCEPT ![r].total = total, ![r].idx = idx + 1]
  /\ UNCHANGED <<req, stock>>

\* one iteration of the loop ends: the inventory of item idx arrives
TotalInventoryReturned(r) ==
  /\ pc[r] = "total_inventory"
  /\ \E out \in Outcomes({Inventory(loc[r].cartItems[loc[r].idx].inventory_id)}) :
       LET l == loc[r]
           total == Accumulate(l.total, out.data, l.cartItems[l.idx])
       IN IF out.t = "rejected"
            THEN /\ Returned(r, out)
                 /\ Catch(r, out.error, "Error calculating cart total")
                 /\ loc' = loc
          ELSE IF l.idx = Len(l.cartItems)
            THEN /\ Returned(r, out) /\ Respond(r, 200, [total |-> total])
                 /\ loc' = [loc EXCEPT ![r].total = total]
          ELSE /\ ReturnedThen(r, out, "total_inventory",
                               InventoryCall(l.cartItems[l.idx + 1]))
               /\ loc' = [loc EXCEPT ![r].total = total, ![r].idx = l.idx + 1]
  /\ UNCHANGED <<req, stock>>

\* ------------------------------------------------------------------ system
Next ==
  \E r \in Slots :
    \/ AddToCart(r) \/ AddInventoryReturned(r) \/ AddPostReturned(r)
    \/ GetCart(r) \/ GetCartReturned(r)
    \/ UpdateCart(r) \/ UpdateItemReturned(r) \/ UpdateInventoryReturned(r)
    \/ UpdatePutReturned(r)
    \/ RemoveFromCart(r) \/ RemoveItemReturned(r) \/ RemoveDeleteReturned(r)
    \/ ClearCart(r) \/ ClearDeleteReturned(r)
    \/ GetCartTotal(r) \/ TotalCartReturned(r) \/ TotalInventoryReturned(r)

Spec == Init /\ [][Next]_vars

\* Two requests handled at the same time.  Node runs one handler until its next
\* await, so the steps of the two handlers interleave at the awaits.  The
\* requests are add and update requests that pass validation, sent by user "1"
\* (an add is for the cart of user "1"), that ask for one of the two largest
\* quantities; every inventory record holds the same stockQuantity, which
\* covers both quantities, or only the smaller one.
ConcurrentRequests ==
  { rq \in AddRequests \cup UpdateRequests :
      /\ ~ValidationFailed(rq)
      /\ rq.user = [t |-> "object", id |-> Str("1")]
      /\ rq.op = "addToCart" => rq.body.user_id = Str("1")
      /\ rq.body.quantity.v \in {MaxQty - 1, MaxQty} }

InitConcurrent ==
  /\ req \in [Slots -> ConcurrentRequests]
  /\ pc = [r \in Slots |-> "start"]
  /\ calls = [r \in Slots |-> <<>>]
  /\ resp = [r \in Slots |-> <<>>]
  /\ loc = [r \in Slots |-> NoLoc]
  /\ \E n \in {MaxQty - 1, MaxQty} : stock = [i \in Ids |-> Num(n)]

NextConcurrent ==
  \E r \in Slots :
    \/ AddToCart(r) \/ AddInventoryReturned(r) \/ AddPostReturned(r)
    \/ UpdateCart(r) \/ UpdateItemReturned(r) \/ UpdateInventoryReturned(r)
    \/ UpdatePutReturned(r)

SpecConcurrent == InitConcurrent /\ [][NextConcurrent]_vars

\* ------------------------------------------------------------- vocabulary
Done(r) == pc[r] = "done"

Mutators == {"addToCart", "updateCart", "removeFromCart", "clearCart"}
FetchGated == {"updateCart", "removeFromCart"}

IsMutating(c) == c.method \in {"post", "put", "delete"}

\* the positions of the mutating calls r has issued
MutatingCalls(r) == {k \in 1..Len(calls[r]) : IsMutating(calls[r][k])}

\* r has sent exactly the response (s, b)
Answered(r, s, b) ==
  Len(resp[r]) = 1 /\ resp[r][1].status = s /\ resp[r][1].body = b

\* the integer a number or a numeric string stands for
NumberOf(x) == IF x.t = "number" THEN x.v ELSE CHOOSE n \in Ids : ToString(n) = x.v

\* the cart item r's first call fetched (update and remove), once it has arrived
ItemArrived(r) ==
  /\ req[r].op \in FetchGated
  /\ Len(calls[r]) >= 1 /\ calls[r][1].result.t = "resolved"

FetchedItem(r) == calls[r][1].result.data

\* the owner id of the request is known: it came with the request, or with the
\* fetched cart item
OwnerKnown(r) ==
  IF req[r].op \in FetchGated
    THEN ItemArrived(r) /\ ~IsUndefined(FetchedItem(r).user_id)
    ELSE req[r].op # "none"

OwnerId(r) ==
  CASE req[r].op = "addToCart" -> req[r].body.user_id
    [] req[r].op \in FetchGated -> FetchedItem(r).user_id
    [] OTHER -> req[r].params.user_id

HasActor(r) == ~IsUndefined(req[r].user)

\* the actor and the owner are the same user, whatever the representation of the ids
ActorIsOwner(r) ==
  HasActor(r) /\ OwnerKnown(r) /\ NumberOf(req[r].user.id) = NumberOf(OwnerId(r))

ActorIsOther(r) ==
  HasActor(r) /\ OwnerKnown(r) /\ NumberOf(req[r].user.id) # NumberOf(OwnerId(r))

HasErrors(r) == req[r].errors # <<>>

\* the handler of r has come to its ownership check and has returned
CheckReached(r) == Done(r) /\ ~HasErrors(r) /\ OwnerKnown(r)

\* no upstream call of r has failed
NoFailure(r) == \A k \in 1..Len(calls[r]) : calls[r][k].result.t # "rejected"

\* the inventory record a stock-gated request reads, when the request names it
InventoryKnown(r) ==
  req[r].op = "addToCart" \/ (req[r].op = "updateCart" /\ ItemArrived(r))

InventoryId(r) ==
  IF req[r].op = "addToCart" THEN req[r].body.inventory_id
                             ELSE FetchedItem(r).inventory_id

\* the position of the inventory fetch among the calls of a stock-gated request
InventoryCallAt(r) == IF req[r].op = "addToCart" THEN 1 ELSE 2

\* the inventory fetch of a stock-gated request has returned a record
InventoryArrived(r) ==
  /\ req[r].op \in StockGated
  /\ Len(calls[r]) >= InventoryCallAt(r)
  /\ calls[r][InventoryCallAt(r)].result.t = "resolved"

StockRead(r) == calls[r][InventoryCallAt(r)].result.data.stockQuantity

SuccessStatus(r) == IF req[r].op = "addToCart" THEN 201 ELSE 200

\* ----------------------------------------------------------------- claims

\* C1: in add, update, remove and clear a mutating upstream call is issued only
\* when the actor is the owner (in update and remove: of the cart item fetched
\* before), and a request whose actor differs by value from the owner is
\* answered 403 {message: "Unauthorized"} without any mutating call.
C1_MutationOnlyForOwner ==
  \A r \in Slots :
    /\ MutatingCalls(r) # {} => req[r].op \in Mutators /\ ActorIsOwner(r)
    /\ req[r].op \in Mutators /\ CheckReached(r) /\ ActorIsOther(r)
         => Answered(r, 403, Unauthorized) /\ MutatingCalls(r) = {}

\* a remove request of another user's item has been refused after the fetch
C1_Witness ==
  \E r \in Slots :
    /\ req[r].op = "removeFromCart" /\ CheckReached(r) /\ ActorIsOther(r)
    /\ Answered(r, 403, Unauthorized) /\ Len(calls[r]) = 1

\* C2 (as claimed; the code refutes it): an add request that passes validation
\* and whose actor's integer id equals parseInt(body.user_id) is not answered
\* Unauthorized, and with sufficient stock and no upstream failure it ends 201.
C2_IntegerOwnerAdds ==
  \A r \in Slots :
    /\ req[r].op = "addToCart" /\ Done(r) /\ ~HasErrors(r)
    /\ HasActor(r) /\ req[r].user.id.t = "number"
    /\ req[r].user.id.v = NumberOf(req[r].body.user_id)
    => /\ ~Answered(r, 403, Unauthorized)
       /\ Len(calls[r]) >= 1
       /\ ( /\ NoFailure(r)
            /\ stock[req[r].body.inventory_id.v].t = "number"
            /\ req[r].body.quantity.v <= stock[req[r].body.inventory_id.v].v )
          => Len(resp[r]) = 1 /\ resp[r][1].status = 201

\* C3 (as claimed; the code refutes it): in get, clear, total, update and remove
\* a request whose actor's integer id, rendered as a string, equals the owner id
\* is not answered Unauthorized and its next upstream call is issued.
C3_IntegerOwnerPasses ==
  \A r \in Slots :
    /\ req[r].op \in {"getCart", "clearCart", "getCartTotal", "updateCart", "removeFromCart"}
    /\ CheckReached(r)
    /\ HasActor(r) /\ req[r].user.id.t = "number"
    /\ Str(ToString(req[r].user.id.v)) =
         (IF OwnerId(r).t = "number" THEN Str(ToString(OwnerId(r).v)) ELSE OwnerId(r))
    => /\ ~Answered(r, 403, Unauthorized)
       /\ Len(calls[r]) >= (IF req[r].op \in FetchGated THEN 2 ELSE 1)

\* C4: in all six operations a request without actor identity is answered as a
\* request of another user is: 403 {message: "Unauthorized"}, exactly one
\* response and no mutating call; in update and remove also when the refusal
\* comes after the cart item has been fetched.
C4_AbsentActorRefused ==
  \A r \in Slots :
    CheckReached(r) /\ (~HasActor(r) \/ ActorIsOther(r))
      => /\ Answered(r, 403, Unauthorized)
         /\ MutatingCalls(r) = {}
         /\ Len(calls[r]) = (IF req[r].op \in FetchGated THEN 1 ELSE 0)

\* an update without actor identity has been refused after the item arrived
C4_Witness ==
  \E r \in Slots :
    /\ req[r].op = "updateCart" /\ CheckReached(r) /\ ~HasActor(r)
    /\ ItemArrived(r) /\ Answered(r, 403, Unauthorized)

\* C5: an add or update request whose validation result is not empty is answered
\* 400 with the whole list of field errors, and issues no upstream call at all.
C5_ValidationShortCircuits ==
  \A r \in Slots :
    req[r].op \in StockGated /\ HasErrors(r) /\ pc[r] # "start"
      => /\ Done(r)
         /\ Answered(r, 400, [errors |-> req[r].errors])
         /\ calls[r] = <<>>

\* an update with two field errors has been answered
C5_Witness ==
  \E r \in Slots :
    /\ req[r].op = "updateCart" /\ Len(req[r].errors) = 2 /\ Done(r)
    /\ Answered(r, 400, [errors |-> req[r].errors])

\* C6: in add and update, when the inventory fetch has returned a stockQuantity
\* smaller than the requested quantity, the request is answered
\* 400 {message: "Insufficient stock"} and no mutating call is issued.
C6_InsufficientStockRefused ==
  \A r \in Slots :
    /\ InventoryArrived(r) /\ StockRead(r).t = "number"
    /\ req[r].body.quantity.v > StockRead(r).v
    => /\ ActorIsOwner(r)
       /\ Done(r)
       /\ Answered(r, 400, InsufficientStock)
       /\ MutatingCalls(r) = {}

\* an update asking for more than the stock has been refused
C6_Witness ==
  \E r \in Slots :
    /\ req[r].op = "updateCart" /\ InventoryArrived(r) /\ StockRead(r).t = "number"
    /\ req[r].body.quantity.v = StockRead(r).v + 1
    /\ Answered(r, 400, InsufficientStock)

\* C7: in add and update, when the inventory fetch has returned a stockQuantity
\* greater than or equal to the requested quantity, exactly one mutating call is
\* issued, it carries the request body unchanged, and once it has succeeded the
\* response is the upstream body with status 201 (add) or 200 (update).
C7_SufficientStockMutatesOnce ==
  \A r \in Slots :
    /\ InventoryArrived(r) /\ StockRead(r).t = "number"
    /\ req[r].body.quantity.v <= StockRead(r).v
    => LET k == InventoryCallAt(r) + 1 IN
       /\ ActorIsOwner(r)
       /\ Len(calls[r]) = k /\ MutatingCalls(r) = {k}
       /\ calls[r][k].method = (IF req[r].op = "addToCart" THEN "post" ELSE "put")
       /\ calls[r][k].args[2] = req[r].body
       /\ calls[r][k].result.t = "pending" <=> ~Done(r)
       /\ calls[r][k].result.t = "resolved"
            => Answered(r, SuccessStatus(r), calls[r][k].result.data)

\* an add asking for exactly the stock has been answered 201 with the upstream body
C7_Witness ==
  \E r \in Slots :
    /\ req[r].op = "addToCart" /\ InventoryArrived(r) /\ StockRead(r).t = "number"
    /\ req[r].body.quantity.v = StockRead(r).v
    /\ Len(calls[r]) = 2 /\ calls[r][2].result.t = "resolved"
    /\ Answered(r, 201, calls[r][2].result.data)

\* the cart a total request has fetched, once every call of the request has
\* succeeded and the response is sent
TotalComputed(r) ==
  /\ req[r].op = "getCartTotal" /\ Done(r) /\ Len(calls[r]) >= 1 /\ NoFailure(r)

FetchedCart(r) == calls[r][1].result.data

\* price(item.inventory_id) * item.quantity for each item of a cart, in cart order
Addends(cart) ==
  [k \in 1..Len(cart) |-> Times(PriceOf(cart[k].inventory_id.v), cart[k].quantity)]

\* the addends summed from 0, left to right
RECURSIVE SumInOrder(_)
SumInOrder(as) ==
  IF as = <<>> THEN Double(Zero)
  ELSE Plus(SumInOrder(SubSeq(as, 1, Len(as) - 1)), as[Len(as)])

Orders(n) == {f \in [1..n -> 1..n] : \A i, j \in 1..n : f[i] = f[j] => i = j}

Permuted(as, f) == [k \in 1..Len(as) |-> as[f[k]]]

\* C8 as claimed (the code refutes it): the total answered is the sum of
\* price(item.inventory_id) * item.quantity whatever the order of the items.
C8_TotalOrderIndependent ==
  \A r \in Slots :
    TotalComputed(r)
      => \A f \in Orders(Len(FetchedCart(r))) :
           Answered(r, 200, [total |-> SumInOrder(Permuted(Addends(FetchedCart(r)), f))])

\* C8 as amended: once the cart and every inventory record have been fetched,
\* the answer is 200 {total}, total being the binary64 sum, accumulated from 0
\* in cart order, of price(item.inventory_id) * item.quantity; it is 0 for an
\* empty cart, and for a cart of at most two items it is the same in either order.
C8_TotalAccumulatedInOrder ==
  \A r \in Slots :
    TotalComputed(r)
      => LET as == Addends(FetchedCart(r)) IN
         /\ ActorIsOwner(r)
         /\ Len(calls[r]) = Len(as) + 1
         /\ Answered(r, 200, [total |-> SumInOrder(as)])
         /\ as = <<>> => Answered(r, 200, [total |-> Double(Zero)])
         /\ Len(as) <= 2
              => \A f \in Orders(Len(as)) :
                   SumInOrder(Permuted(as, f)) = SumInOrder(as)

\* the total of a cart of two different items with different quantities has
\* been answered
C8_Witness ==
  \E r \in Slots :
    /\ TotalComputed(r) /\ Len(FetchedCart(r)) = 2
    /\ FetchedCart(r)[1].inventory_id # FetchedCart(r)[2].inventory_id
    /\ FetchedCart(r)[1].quantity # FetchedCart(r)[2].quantity
    /\ Answered(r, 200, [total |-> SumInOrder(Addends(FetchedCart(r)))])

\* the failure of r's call k, when that call was rejected
Failed(r, k) == k \in 1..Len(calls[r]) /\ calls[r][k].result.t = "rejected"
FailureOf(r, k) == calls[r][k].result.error

\* the upstream answered r's call k with a status and a body that has a message
FailedWithResponse(r, k) ==
  /\ Failed(r, k)
  /\ ~IsUndefined(FailureOf(r, k).response)
  /\ ~IsUndefined(FailureOf(r, k).response.data.message)

DefaultMessage(op) ==
  CASE op = "addToCart" -> "Error adding to cart"
    [] op = "getCart" -> "Error getting cart"
    [] op = "updateCart" -> "Error updating cart"
    [] op = "removeFromCart" -> "Error removing from cart"
    [] op = "clearCart" -> "Error clearing cart"
    [] op = "getCartTotal" -> "Error calculating cart total"

\* C9 as claimed (the code refutes it): the answer to an upstream failure that
\* carries a status and a message is that status with {message: data.message,
\* error: data.errors}, error being undefined when the upstream body has no errors.
C9_UpstreamErrorVerbatim ==
  \A r \in Slots : \A k \in 1..Len(calls[r]) :
    FailedWithResponse(r, k)
      => Answered(r, FailureOf(r, k).response.status.v,
                  [message |-> FailureOf(r, k).response.data.message,
                   error |-> FailureOf(r, k).response.data.errors])

\* C9 as amended: in every operation the answer to an upstream failure that
\* carries a status and a message is that status with {message: data.message,
\* error: e}, where e is data.errors when the upstream body has errors and
\* otherwise the failure's own message (undefined only if the failure has none).
C9_UpstreamErrorSurfaced ==
  \A r \in Slots : \A k \in 1..Len(calls[r]) :
    FailedWithResponse(r, k)
      => Answered(r, FailureOf(r, k).response.status.v,
                  [message |-> FailureOf(r, k).response.data.message,
                   error |-> IF IsUndefined(FailureOf(r, k).response.data.errors)
                               THEN FailureOf(r, k).message
                               ELSE FailureOf(r, k).response.data.errors])

\* a clear request whose delete failed with a 404 that has a message and no
\* errors, the failure having a message of its own, has been answered
C9_Witness ==
  \E r \in Slots :
    /\ req[r].op = "clearCart" /\ FailedWithResponse(r, 1)
    /\ IsUndefined(FailureOf(r, 1).response.data.errors)
    /\ ~IsUndefined(FailureOf(r, 1).message)
    /\ Answered(r, 404, [message |-> FailureOf(r, 1).response.data.message,
                         error |-> FailureOf(r, 1).message])

\* C10: in every operation the answer to an upstream failure without a response
\* is 500 with {message: the operation's default message, error: the failure's
\* description}.
C10_TransportErrorSurfaced ==
  \A r \in Slots : \A k \in 1..Len(calls[r]) :
    Failed(r, k) /\ IsUndefined(FailureOf(r, k).response)
      => Answered(r, 500, [message |-> Str(DefaultMessage(req[r].op)),
                           error |-> FailureOf(r, k).message])

\* a cart total whose inventory fetch failed without a response has been answered
C10_Witness ==
  \E r \in Slots :
    /\ req[r].op = "getCartTotal" /\ Failed(r, 2)
    /\ IsUndefined(FailureOf(r, 2).response)
    /\ Answered(r, 500, [message |-> Str("Error calculating cart total"),
                         error |-> Str("Network error")])

\* the response body, as JSON carries it, has a message
HasMessage(b) == "message" \in DOMAIN b /\ b.message.t = "string" /\ b.message.v # ""

\* r has been answered with a failure status
FailureAnswered(r) == Done(r) /\ Len(resp[r]) = 1 /\ resp[r][1].status >= 400

\* C11 as claimed (the code refutes it): on every failure path of every
\* operation the response body has a message field.
C11_EveryFailureHasMessage ==
  \A r \in Slots : FailureAnswered(r) => HasMessage(resp[r][1].body)

\* C11 as amended: a handler that has returned has sent exactly one response;
\* on every failure path but validation failure (authorization failure,
\* insufficient stock, upstream error, transport error) its body has a
\* non-empty message field, and a validation failure is answered 400 with the
\* body {errors: [...]}, which has no message field.
C11_FailureBodyShape ==
  \A r \in Slots :
    /\ Done(r) => Len(resp[r]) = 1
    /\ FailureAnswered(r)
         => IF HasErrors(r)
              THEN /\ Answered(r, 400, [errors |-> req[r].errors])
                   /\ ~HasMessage(resp[r][1].body)
              ELSE HasMessage(resp[r][1].body)

\* a get request whose fetch failed with a 404 that has no message has been
\* answered with the handler's default message
C11_Witness ==
  \E r \in Slots :
    /\ req[r].op = "getCart" /\ Failed(r, 1)
    /\ ~IsUndefined(FailureOf(r, 1).response)
    /\ IsUndefined(FailureOf(r, 1).response.data.message)
    /\ FailureAnswered(r) /\ resp[r][1].status = 404
    /\ resp[r][1].body.message = Str("Error getting cart")

\* the position of the config argument of an axios call (after the url, and
\* after the body of a post or put)
ConfigAt(c) == IF c.method \in {"post", "put"} THEN 3 ELSE 2

\* C12 (as claimed; the code refutes it): every upstream call carries an
\* Authorization header equal to the Authorization header of the inbound request.
C12_AuthorizationForwarded ==
  \A r \in Slots : \A k \in 1..Len(calls[r]) :
    LET c == calls[r][k] IN
    /\ Len(c.args) >= ConfigAt(c)
    /\ c.args[ConfigAt(c)].headers.Authorization = req[r].headers.authorization

\* the operations whose owner id comes with the request
RequestGated == {"addToCart", "getCart", "clearCart", "getCartTotal"}

\* C13: in add, get, clear and total a request whose actor is absent or is not
\* the owner issues no upstream call of any kind, and is answered 403
\* {message: "Unauthorized"} (an add that fails validation: 400 with the errors).
C13_UnauthorizedNoUpstreamCall ==
  \A r \in Slots :
    req[r].op \in RequestGated /\ (~HasActor(r) \/ ActorIsOther(r))
      => /\ calls[r] = <<>>
         /\ Done(r) => IF HasErrors(r)
                         THEN Answered(r, 400, [errors |-> req[r].errors])
                         ELSE Answered(r, 403, Unauthorized)

\* a total request for another user's cart has been refused without any call
C13_Witness ==
  \E r \in Slots :
    /\ req[r].op = "getCartTotal" /\ ActorIsOther(r) /\ Done(r)
    /\ Answered(r, 403, Unauthorized) /\ calls[r] = <<>>

\* the delete-all call of a clear request has returned without failure
ClearSucceeded(r) ==
  /\ req[r].op = "clearCart"
  /\ Len(calls[r]) >= 1 /\ calls[r][1].result.t = "resolved"

\* C14: a clear request whose delete-all call has not failed came from the
\* owner, has issued exactly one upstream call, DELETE /api/cart/clear/:user_id,
\* and is answered 200 {message: "Cart cleared successfully"} whatever the
\* upstream body is.
C14_ClearAnswersFixedMessage ==
  \A r \in Slots :
    ClearSucceeded(r)
      => /\ ActorIsOwner(r)
         /\ Len(calls[r]) = 1
         /\ calls[r][1].method = "delete"
         /\ calls[r][1].args[1] =
              "http://localhost:5089/api/cart/clear/" \o req[r].params.user_id.v
         /\ Answered(r, 200, [message |-> Str("Cart cleared successfully")])

\* the cart of user 2 has been cleared, the upstream having answered {id: 1}
C14_Witness ==
  \E r \in Slots :
    /\ ClearSucceeded(r) /\ req[r].params.user_id = Str("2")
    /\ calls[r][1].result.data.id = Num(1)
    /\ Answered(r, 200, [message |-> Str("Cart cleared successfully")])

\* C16: validation comes before authorization: an add request that fails
\* validation and whose actor is absent or not the owner is answered 400 with
\* the field errors, never 403; an update request that fails validation is
\* answered 400 without the cart item being fetched, whoever the actor is.
C16_ValidationBeforeAuthorization ==
  \A r \in Slots :
    /\ ( /\ req[r].op = "addToCart" /\ HasErrors(r) /\ Done(r)
         /\ (~HasActor(r) \/ ActorIsOther(r)) )
         => /\ Answered(r, 400, [errors |-> req[r].errors])
            /\ \A k \in 1..Len(resp[r]) : resp[r][k].status # 403
    /\ req[r].op = "updateCart" /\ HasErrors(r)
         => /\ calls[r] = <<>>
            /\ pc[r] \in {"start", "done"}
            /\ Done(r) => Answered(r, 400, [errors |-> req[r].errors])

\* an add request without actor identity that fails validation has been
\* answered 400
C16_Witness ==
  \E r \in Slots :
    /\ req[r].op = "addToCart" /\ HasErrors(r) /\ ~HasActor(r) /\ Done(r)
    /\ Answered(r, 400, [errors |-> req[r].errors])

\* the status and the message a handler's answer to the failure e carries
ReportedStatus(e) == IF IsUndefined(e.response) THEN 500 ELSE e.response.status.v

ReportedMessage(e, op) ==
  IF IsUndefined(e.response) \/ IsUndefined(e.response.data.message)
    THEN Str(DefaultMessage(op))
    ELSE e.response.data.message

\* r's answer reports the failure e
Reports(r, e) ==
  /\ Done(r) /\ Len(resp[r]) = 1
  /\ resp[r][1].status = ReportedStatus(e)
  /\ DOMAIN resp[r][1].body = {"message", "error"}
  /\ resp[r][1].body.message = ReportedMessage(e, req[r].op)

\* a handler that waits for an upstream call
Waiting(r) == pc[r] \notin {"unused", "start", "done"}

\* C17: within one request the upstream calls are sequential and never
\* retried: every call but the last has returned successfully, only the last
\* one can be outstanding (and then the handler waits for it), and a call that
\* has failed is the last one of the request, whose answer reports that failure.
C17_CallsSequentialNoRetry ==
  \A r \in Slots :
    /\ \A k \in 1..(Len(calls[r]) - 1) : calls[r][k].result.t = "resolved"
    /\ Waiting(r) <=> (calls[r] # <<>> /\ calls[r][Len(calls[r])].result.t = "pending")
    /\ \A k \in 1..Len(calls[r]) :
         Failed(r, k) => k = Len(calls[r]) /\ Reports(r, FailureOf(r, k))

\* an update whose inventory fetch failed has been answered with that failure,
\* no further call having been issued
C17_Witness ==
  \E r \in Slots :
    /\ req[r].op = "updateCart" /\ Failed(r, 2) /\ Len(calls[r]) = 2
    /\ calls[r][1].result.t = "resolved"
    /\ ~IsUndefined(FailureOf(r, 2).response)
    /\ Reports(r, FailureOf(r, 2)) /\ resp[r][1].status = 404

\* C18: an update or remove request whose actor is absent or is not the owner
\* of the fetched cart item issues exactly one upstream call,
\* GET /api/cart/item/:id, no inventory fetch and no mutating call, and is
\* answered 403.
C18_UnauthorizedAfterItemFetch ==
  \A r \in Slots :
    /\ req[r].op \in FetchGated /\ ItemArrived(r) /\ OwnerKnown(r)
    /\ (~HasActor(r) \/ ActorIsOther(r))
    => /\ Len(calls[r]) = 1
       /\ calls[r][1].method = "get"
       /\ calls[r][1].args = <<"http://localhost:5089/api/cart/item/" \o req[r].params.id.v>>
       /\ Answered(r, 403, Unauthorized)

\* an update of another user's item has been refused after the single fetch
C18_Witness ==
  \E r \in Slots :
    /\ req[r].op = "updateCart" /\ ItemArrived(r) /\ ActorIsOther(r)
    /\ Len(calls[r]) = 1 /\ Answered(r, 403, Unauthorized)

\* C19: in a total request, when the inventory fetch of an item fails, no
\* inventory fetch is issued for a later item, no total is answered, and the
\* answer reports that failure: its status and message, or 500 with
\* "Error calculating cart total".
C19_TotalStopsAtFirstFailure ==
  \A r \in Slots : \A k \in 2..Len(calls[r]) :
    req[r].op = "getCartTotal" /\ Failed(r, k)
      => /\ Len(calls[r]) = k
         /\ Reports(r, FailureOf(r, k))
         /\ "total" \notin DOMAIN resp[r][1].body
         /\ IsUndefined(FailureOf(r, k).response)
              => /\ resp[r][1].status = 500
                 /\ resp[r][1].body.message = Str("Error calculating cart total")

\* the inventory fetch of the second of three items failed with a 404 and the
\* request has been answered 404, the third item never fetched
C19_Witness ==
  \E r \in Slots :
    /\ req[r].op = "getCartTotal" /\ Failed(r, 3) /\ Len(FetchedCart(r)) = 3
    /\ Len(calls[r]) = 3 /\ Done(r)
    /\ resp[r][1].status = 404 /\ "total" \notin DOMAIN resp[r][1].body

InventoryUrl(item) == "http://localhost:5089/api/inventory/" \o ToString(item.inventory_id.v)

\* C20: in a total request the first call is the cart fetch and, once the cart
\* has arrived, call k+1 is the inventory fetch of the k-th cart item: one
\* fetch per item, in cart order, one at a time, also for items with the same
\* inventory_id; a request that succeeds has issued n+1 calls for n items.
C20_OneInventoryFetchPerItem ==
  \A r \in Slots :
    req[r].op = "getCartTotal" /\ calls[r] # <<>>
      => /\ calls[r][1].method = "get"
         /\ calls[r][1].args = <<"http://localhost:5089/api/cart/" \o req[r].params.user_id.v>>
         /\ calls[r][1].result.t # "resolved" => Len(calls[r]) = 1
         /\ calls[r][1].result.t = "resolved"
              => /\ Len(calls[r]) <= Len(FetchedCart(r)) + 1
                 /\ \A k \in 2..Len(calls[r]) :
                      /\ calls[r][k].method = "get"
                      /\ calls[r][k].args = <<InventoryUrl(FetchedCart(r)[k - 1])>>
                      /\ calls[r][k - 1].result.t = "resolved"
                 /\ TotalComputed(r) => Len(calls[r]) = Len(FetchedCart(r)) + 1

\* the total of a cart holding the same inventory item twice has been answered
\* after three calls, the same inventory record fetched twice
C20_Witness ==
  \E r \in Slots :
    /\ TotalComputed(r) /\ Len(FetchedCart(r)) = 2
    /\ FetchedCart(r)[1].inventory_id = FetchedCart(r)[2].inventory_id
    /\ Len(calls[r]) = 3 /\ calls[r][2].args = calls[r][3].args

\* r has read the stock of its inventory item and the stock covers its quantity
PassedStockCheck(r) ==
  /\ InventoryArrived(r) /\ StockRead(r).t = "number"
  /\ req[r].body.quantity.v <= StockRead(r).v

\* r's mutating call is issued and has not returned yet
MutationInFlight(r) ==
  /\ pc[r] \in {"add_post", "update_put"}
  /\ MutatingCalls(r) = {Len(calls[r])}
  /\ calls[r][Len(calls[r])].result.t = "pending"

\* C15: the stock check and the mutation are not atomic: of two requests handled
\* at the same time for the same inventory item, each one whose quantity the
\* stockQuantity it has read covers issues its mutating call, whatever the
\* other one has read, asked for or issued, also when the two quantities
\* together exceed the stockQuantity both have read.
C15_StockCheckNotAtomic ==
  \A r1, r2 \in Slots :
    /\ r1 # r2
    /\ PassedStockCheck(r1) /\ PassedStockCheck(r2)
    /\ InventoryId(r1) = InventoryId(r2)
    => /\ StockRead(r1) = StockRead(r2)
       /\ MutatingCalls(r1) # {} /\ MutatingCalls(r2) # {}

\* an add and an update for the same inventory item have both read the same
\* stockQuantity and both their mutating calls are in flight, the two
\* quantities together exceeding that stockQuantity
C15_Witness ==
  /\ req[1].op = "addToCart" /\ req[2].op = "updateCart"
  /\ PassedStockCheck(1) /\ PassedStockCheck(2)
  /\ InventoryId(1) = InventoryId(2)
  /\ StockRead(1) = StockRead(2)
  /\ MutationInFlight(1) /\ MutationInFlight(2)
  /\ req[1].body.quantity.v + req[2].body.quantity.v > StockRead(1).v

\* the handler of r has begun and has not ended
Running(r) == pc[r] \notin {"unused", "done"}

\* a bound on the number of steps (the start of the handler, then one per
\* await that returns) the handler of r has still to take
StepsLeft(r) ==
  CASE pc[r] \in {"unused", "done"} -> 0
    [] pc[r] \in {"get_cart", "add_post", "update_put", "remove_delete", "clear_delete"} -> 1
    [] pc[r] \in {"add_inventory", "update_inventory", "remove_item"} -> 2
    [] pc[r] = "update_item" -> 3
    [] pc[r] = "total_inventory" -> Len(loc[r].cartItems) - loc[r].idx + 1
    [] pc[r] = "total_cart" -> MaxItems + 1
    [] pc[r] = "start" -> MaxItems + 2

\* C21: every invocation of each of the six handlers, whatever the validation
\* result, the actor and the outcomes of its upstream calls, ends having sent
\* exactly one response.  No response is sent before the handler ends and never
\* a second one, and no handler ends without one (as it would if an exception
\* left it); a handler that has not ended is about to start or awaits a call
\* that is still outstanding, and every step (the start, or the return of an
\* awaited call, whatever its outcome) brings it nearer to its end, so that it
\* ends once its calls are settled.
C21_ExactlyOneResponse ==
  /\ [](\A r \in Slots :
          /\ Len(resp[r]) <= 1
          /\ Done(r) <=> Len(resp[r]) = 1
          /\ Running(r)
               => /\ StepsLeft(r) > 0
                  /\ \/ pc[r] = "start" /\ calls[r] = <<>>
                     \/ /\ calls[r] # <<>>
                        /\ calls[r][Len(calls[r])].result.t = "pending")
  /\ [][\E r \in Slots :
          /\ StepsLeft(r)' < StepsLeft(r)
          /\ \A o \in Slots \ {r} : pc'[o] = pc[o] /\ resp'[o] = resp[o]]_vars

\* an add whose post failed without a response has ended with one response
C21_Witness ==
  \E r \in Slots :
    /\ req[r].op = "addToCart" /\ Failed(r, 2) /\ IsUndefined(FailureOf(r, 2).response)
    /\ Done(r) /\ Len(resp[r]) = 1 /\ resp[r][1].status = 500

\* what the upstream has answered to the calls of r so far, in order
Results(r) == [k \in 1..Len(calls[r]) |-> calls[r][k].result]

\* an add or update request handled alone: the number of calls it issues and
\* the response it gets, as a function of the request rq and of the
\* upstream's answers rs to its calls
Outcome(n, s, b) == [calls |-> n, answered |-> TRUE, response |-> [status |-> s, body |-> b]]

FailureOutcome(n, e, op) ==
  Outcome(n, ReportedStatus(e),
          [message |-> ReportedMessage(e, op),
           error |-> IF IsUndefined(e.response) \/ IsUndefined(e.response.data.errors)
                       THEN e.message ELSE e.response.data.errors])

\* the actor of rq is the string the owner id is rendered as
Accepted(rq, owner) ==
  /\ ~IsUndefined(rq.user) /\ rq.user.id.t = "string"
  /\ rq.user.id.v = (IF owner.t = "number" THEN ToString(owner.v) ELSE owner.v)

Refused(inventory, rq) ==
  inventory.stockQuantity.t = "number" /\ inventory.stockQuantity.v < rq.body.quantity.v

\* the k-th call is issued and the upstream has not answered it: no response yet
Awaiting(rs, k) == k \notin DOMAIN rs \/ rs[k].t = "pending"

NoResponseYet(k) == [calls |-> k, answered |-> FALSE, response |-> Undefined]

AddAlone(rq, rs) ==
  IF rq.errors # <<>> THEN Outcome(0, 400, [errors |-> rq.errors])
  ELSE IF ~Accepted(rq, rq.body.user_id) THEN Outcome(0, 403, Unauthorized)
  ELSE IF Awaiting(rs, 1) THEN NoResponseYet(1)
  ELSE IF rs[1].t = "rejected" THEN FailureOutcome(1, rs[1].error, rq.op)
  ELSE IF Refused(rs[1].data, rq) THEN Outcome(1, 400, InsufficientStock)
  ELSE IF Awaiting(rs, 2) THEN NoResponseYet(2)
  ELSE IF rs[2].t = "rejected" THEN FailureOutcome(2, rs[2].error, rq.op)
  ELSE Outcome(2, 201, rs[2].data)

UpdateAlone(rq, rs) ==
  IF rq.errors # <<>> THEN Outcome(0, 400, [errors |-> rq.errors])
  ELSE IF Awaiting(rs, 1) THEN NoResponseYet(1)
  ELSE IF rs[1].t = "rejected" THEN FailureOutcome(1, rs[1].error, rq.op)
  ELSE IF IsUndefined(rs[1].data.user_id)
    THEN Outcome(1, 500, [message |-> Str("Error updating cart"), error |-> TypeError.message])
  ELSE IF ~Accepted(rq, rs[1].data.user_id) THEN Outcome(1, 403, Unauthorized)
  ELSE IF Awaiting(rs, 2) THEN NoResponseYet(2)
  ELSE IF rs[2].t = "rejected" THEN FailureOutcome(2, rs[2].error, rq.op)
  ELSE IF Refused(rs[2].data, rq) THEN Outcome(2, 400, InsufficientStock)
  ELSE IF Awaiting(rs, 3) THEN NoResponseYet(3)
  ELSE IF rs[3].t = "rejected" THEN FailureOutcome(3, rs[3].error, rq.op)
  ELSE Outcome(3, 200, rs[3].data)

Alone(rq, rs) == IF rq.op = "addToCart" THEN AddAlone(rq, rs) ELSE UpdateAlone(rq, rs)

\* the arguments of the k-th call of rq handled alone
ArgsAlone(rq, rs, k) ==
  IF rq.op = "addToCart"
    THEN IF k = 1
           THEN <<"http://localhost:5089/api/inventory/" \o ToString(rq.body.inventory_id.v)>>
           ELSE <<"http://localhost:5089/api/cart/add", rq.body>>
  ELSE IF k = 1 THEN <<"http://localhost:5089/api/cart/item/" \o rq.params.id.v>>
  ELSE IF k = 2
    THEN <<"http://localhost:5089/api/inventory/" \o ToString(rs[1].data.inventory_id.v)>>
  ELSE <<"http://localhost:5089/api/cart/update/" \o rq.params.id.v, rq.body>>

\* C22: requests are independent: with two add or update requests handled at
\* the same time, in any interleaving, the calls each request issues and the
\* response it gets are those of the same request handled alone with the same
\* upstream answers: they depend on nothing of the other request.
C22_RequestsIndependent ==
  \A r \in Slots :
    LET rs == Results(r)
        alone == Alone(req[r], rs)
    IN /\ \A k \in 1..Len(calls[r]) : calls[r][k].args = ArgsAlone(req[r], rs, k)
       /\ pc[r] # "start" => Len(calls[r]) = alone.calls
       /\ Done(r) <=> alone.answered /\ pc[r] # "start"
       /\ Done(r) => resp[r] = <<alone.response>>

\* an add and an update for the same inventory item, handled at the same
\* time, have ended: the add answered 201, the update refused for its own
\* quantity
C22_Witness ==
  /\ req[1].op = "addToCart" /\ req[2].op = "updateCart"
  /\ Done(1) /\ Done(2) /\ Len(calls[1]) = 2 /\ Len(calls[2]) = 2
  /\ InventoryId(1) = InventoryId(2)
  /\ resp[1][1].status = 201
  /\ Answered(2, 400, InsufficientStock)

\* C23: add and update issue their mutating call only if the inventory fetch
\* of the same request has returned a stockQuantity that is a number greater
\* than or equal to the requested quantity; a record without stockQuantity
\* does not let the mutation through.
C23_MutationOnlyWithSufficientStock ==
  \A r \in Slots :
    req[r].op \in StockGated /\ MutatingCalls(r) # {}
    => /\ InventoryArrived(r)
       /\ StockRead(r).t = "number"
       /\ StockRead(r).v >= req[r].body.quantity.v

\* C24: in update and remove, when the fetched cart item carries no user_id,
\* the item fetch is the only call of the request (no inventory fetch, no
\* mutating call) and the request is answered 500 with the operation's
\* default message.
C24_FailClosedWithoutOwner ==
  \A r \in Slots :
    ItemArrived(r) /\ IsUndefined(FetchedItem(r).user_id)
    => /\ Len(calls[r]) = 1 /\ MutatingCalls(r) = {}
       /\ Done(r) /\ Len(resp[r]) = 1
       /\ resp[r][1].status = 500
       /\ resp[r][1].body.message = Str(DefaultMessage(req[r].op))

\* a remove whose fetched item has no user_id has been answered 500
\* "Error removing from cart" after its only call
C24_Witness ==
  \E r \in Slots :
    /\ req[r].op = "removeFromCart" /\ HasActor(r)
    /\ ItemArrived(r) /\ IsUndefined(FetchedItem(r).user_id)
    /\ Len(calls[r]) = 1
    /\ Answered(r, 500, [message |-> Str("Error removing from cart"),
                         error |-> TypeError.message])

ReadOnly == {"getCart", "getCartTotal"}

\* C25: get cart and cart total issue only GET calls, whether the request is
\* authorized or not and whether its calls succeed or fail: never a POST, PUT
\* or DELETE.
C25_ReadOnlyOperationsOnlyGet ==
  \A r \in Slots :
    req[r].op \in ReadOnly
    => /\ MutatingCalls(r) = {}
       /\ \A k \in 1..Len(calls[r]) : calls[r][k].method = "get"

\* a cart total whose second inventory fetch failed has ended after three
\* calls, all of them GET
C25_Witness ==
  \E r \in Slots :
    /\ req[r].op = "getCartTotal" /\ Done(r)
    /\ Len(calls[r]) = 3 /\ Failed(r, 3)
    /\ \A k \in 1..3 : calls[r][k].method = "get"

====
